---- MODULE Spec2Model ----
(***************************************************************************)
(* A model of xrp (taesko/xparser): the .Xresources parser                 *)
(* (src/src/xrp/parser.py), the views over the parsed statements           *)
(* (src/src/xrp/views.py) and the wildcard matcher (src/src/xrp/match.py). *)
(*                                                                         *)
(* A text is a sequence of characters; a character is a string of length   *)
(* one.  Python exceptions are modelled as values: an operator returns a   *)
(* record whose field `raised` names the exception type ("" for none).     *)
(***************************************************************************)
EXTENDS Integers, Sequences, FiniteSets, TLC

(***************************************************************************)
(* Bounds of the model.                                                    *)
(***************************************************************************)
\* greatest number of logical lines of a parsed text
MaxLines == 3
\* greatest number of characters of an identifier given to the matcher
MaxIdLen == 3
\* greatest number of characters of a text read through a cursor alone
MaxText == 3
\* greatest number of steps a peek looks ahead
MaxPeek == 3
\* greatest number of characters after the leading token of a string given
\* to a statement recognizer
MaxTail == 4
\* greatest number of logical lines of a text whose parse pass is followed
\* to its end under fairness
MaxPassLines == 2
\* greatest number of logical lines of a text given to a parser that is
\* used for several parse calls
MaxReLines == 2
\* number of include statements a parser holds from which on no further
\* parse call is made on it
MaxIncludes == 3

(***************************************************************************)
(* Module constants of parser.py and match.py.                             *)
(***************************************************************************)
COMMENT_START == "!"
DEFINE_START == "#"
RESOURCE_SEP == ":"
WHITESPACE_CHARS == {" ", "\n"}
WILDCARDS == {"*", "?"}

\* the characters str.strip() removes, among the characters of the model
PyWhitespace == {" ", "\t", "\n"}
\* the characters the regular expression class \w matches, among the
\* characters of the model
WordChars == {"a", "b", "c", "d", "e", "f", "i", "l", "n", "u", "v", "w", "x",
              "1", "2", "_"}

\* Python's None, and the line of an exception that carries none
None == [cls |-> "None"]
NoLine == -1
NoExc == [type |-> "", line |-> NoLine]

(***************************************************************************)
(* Strings.                                                                *)
(***************************************************************************)
\* s.index(c) + 1, or 0 when c does not occur in s
FirstIndex(s, c) ==
    IF \E i \in 1..Len(s) : s[i] = c
    THEN CHOOSE i \in 1..Len(s) : s[i] = c /\ \A j \in 1..(i - 1) : s[j] # c
    ELSE 0

\* the greatest index of c in s, or 0
LastIndex(s, c) ==
    IF \E i \in 1..Len(s) : s[i] = c
    THEN CHOOSE i \in 1..Len(s) : s[i] = c /\ \A j \in (i + 1)..Len(s) : s[j] # c
    ELSE 0

RECURSIVE lstrip(_)
lstrip(s) == IF s # <<>> /\ Head(s) \in PyWhitespace THEN lstrip(Tail(s)) ELSE s

RECURSIVE rstrip(_)
rstrip(s) ==
    IF s # <<>> /\ s[Len(s)] \in PyWhitespace
    THEN rstrip(SubSeq(s, 1, Len(s) - 1))
    ELSE s

\* str.strip()
strip(s) == rstrip(lstrip(s))

\* s.startswith(p)
StartsWith(s, p) == Len(s) >= Len(p) /\ SubSeq(s, 1, Len(p)) = p

(***************************************************************************)
(* PeekableIter: `iterable` is what the underlying iterator has not yet    *)
(* produced, `character_queue` the characters peeked and not yet consumed. *)
(***************************************************************************)
\* PeekableIter.__next__(): the queue is served before the underlying
\* iterator
PeekableIter_next(q, it) ==
    IF Len(q) = 0
    THEN IF it = <<>>
         THEN [raised |-> "StopIteration", char |-> "", character_queue |-> q,
               iterable |-> it]
         ELSE [raised |-> "", char |-> Head(it), character_queue |-> q,
               iterable |-> Tail(it)]
    ELSE [raised |-> "", char |-> Head(q), character_queue |-> Tail(q), iterable |-> it]

\* a variant of peek that loses the characters it pulled when the
\* underlying iterator ends before the n-th
peek_dropping(q, it, n) ==
    IF n <= Len(q)
    THEN [raised |-> "", char |-> q[n], character_queue |-> q, iterable |-> it]
    ELSE LET needed == n - Len(q) IN
         IF needed <= Len(it)
         THEN LET q2 == q \o SubSeq(it, 1, needed) IN
              [raised |-> "", char |-> q2[n], character_queue |-> q2,
               iterable |-> SubSeq(it, needed + 1, Len(it))]
         ELSE [raised |-> "StopIteration", char |-> "",
               character_queue |-> q, iterable |-> <<>>]

\* PeekableIter.peek(n), n >= 1
peek(q, it, n) ==
    IF n <= Len(q)
    THEN [raised |-> "", char |-> q[n], character_queue |-> q, iterable |-> it]
    ELSE LET needed == n - Len(q) IN
         IF needed <= Len(it)
         THEN LET q2 == q \o SubSeq(it, 1, needed) IN
              [raised |-> "", char |-> q2[n], character_queue |-> q2,
               iterable |-> SubSeq(it, needed + 1, Len(it))]
         ELSE \* next(self.iterable) raises after the remaining characters
              \* were appended to the queue
              [raised |-> "StopIteration", char |-> "",
               character_queue |-> q \o it, iterable |-> <<>>]

\* a variant of take_line that also takes the character after the newline
take_line_overrun(q, it) ==
    LET s == q \o it
        p == FirstIndex(s, "\n")
        n == IF p = 0 \/ p = Len(s) THEN Len(s) ELSE p + 1
    IN [line |-> SubSeq(s, 1, IF p = 0 THEN Len(s) ELSE p - 1),
        character_queue |-> SubSeq(q, n + 1, Len(q)),
        iterable |-> IF n <= Len(q) THEN it
                     ELSE SubSeq(it, n - Len(q) + 1, Len(it))]

\* a variant of take_line that stops in front of the newline
take_line_keeping_newline(q, it) ==
    LET s == q \o it
        p == FirstIndex(s, "\n")
        n == IF p = 0 THEN Len(s) ELSE p - 1
    IN [line |-> SubSeq(s, 1, n),
        character_queue |-> SubSeq(q, n + 1, Len(q)),
        iterable |-> IF n <= Len(q) THEN it
                     ELSE SubSeq(it, n - Len(q) + 1, Len(it))]

\* take_line(peek_iter): itertools.takewhile over PeekableIter.__next__,
\* which serves the queue before the underlying iterator; takewhile also
\* consumes the newline that ends the line
take_line(q, it) ==
    LET s == q \o it
        p == FirstIndex(s, "\n")
        n == IF p = 0 THEN Len(s) ELSE p
    IN [line |-> SubSeq(s, 1, IF p = 0 THEN Len(s) ELSE p - 1),
        character_queue |-> SubSeq(q, n + 1, Len(q)),
        iterable |-> IF n <= Len(q) THEN it
                     ELSE SubSeq(it, n - Len(q) + 1, Len(it))]

(***************************************************************************)
(* The statement recognizers (from_iter), applied to the line taken.       *)
(***************************************************************************)
\* XResourceStatement.from_iter: re.match(r'([^:]+):(.*)', line)
XResourceStatement_from_iter(line, linenum) ==
    LET c == FirstIndex(line, RESOURCE_SEP) IN
    IF c >= 2
    THEN [raised |-> "",
          st |-> [cls |-> "XResourceStatement",
                  resource |-> strip(SubSeq(line, 1, c - 1)),
                  value |-> strip(SubSeq(line, c + 1, Len(line))),
                  line |-> linenum]]
    ELSE [raised |-> "XParseError", st |-> None]

\* the literal prefix of the define pattern
DefinePrefix == <<"#", "d", "e", "f", "i", "n", "e", " ">>

\* the length of the longest prefix of s made of \w characters
RECURSIVE WordRun(_)
WordRun(s) == IF s # <<>> /\ Head(s) \in WordChars THEN 1 + WordRun(Tail(s)) ELSE 0

\* XDefineStatement.from_iter: re.match(r'#define (\w+) (.*)', line)
XDefineStatement_from_iter(line, linenum) ==
    LET rest == SubSeq(line, Len(DefinePrefix) + 1, Len(line))
        w == WordRun(rest)
    IN IF StartsWith(line, DefinePrefix) /\ w >= 1 /\ Len(rest) > w /\ rest[w + 1] = " "
       THEN [raised |-> "",
             st |-> [cls |-> "XDefineStatement",
                     name |-> SubSeq(rest, 1, w),
                     value |-> SubSeq(rest, w + 2, Len(rest)),
                     line |-> linenum]]
       ELSE [raised |-> "XParseError", st |-> None]

\* XCommentStatement.from_iter
XCommentStatement_from_iter(line, linenum) ==
    IF line = <<>> \/ line[1] # COMMENT_START
    THEN [raised |-> "XParseError", st |-> None]
    ELSE [raised |-> "",
          st |-> [cls |-> "XCommentStatement",
                  comment |-> SubSeq(line, 2, Len(line)),
                  line |-> linenum]]

\* the literal prefix of the include pattern
IncludePrefix == <<"#", "i", "n", "c", "l", "u", "d", "e", " ", "\"">>

\* XIncludeStatement.from_iter: re.match(r'#include "(.*)"', line); the
\* greedy group ends at the last quote of the line.  A line that does not
\* match makes match.group raise AttributeError.  The statement has no
\* line attribute.
XIncludeStatement_from_iter(line, linenum) ==
    LET rest == SubSeq(line, Len(IncludePrefix) + 1, Len(line))
        e == LastIndex(rest, "\"")
    IN IF StartsWith(line, IncludePrefix) /\ e >= 1
       THEN [raised |-> "",
             st |-> [cls |-> "XIncludeStatement", file |-> SubSeq(rest, 1, e - 1)]]
       ELSE [raised |-> "AttributeError", st |-> None]

\* Whitespace.from_iter: the line plus a newline, rejected by
\* Whitespace.__init__ when it holds a character outside WHITESPACE_CHARS
Whitespace_from_iter(line, linenum) ==
    LET line_string == Append(line, "\n") IN
    IF \E i \in 1..Len(line_string) : line_string[i] \notin WHITESPACE_CHARS
    THEN [raised |-> "XParseError", st |-> None]
    ELSE [raised |-> "",
          st |-> [cls |-> "Whitespace", line_string |-> line_string, line |-> linenum]]

(***************************************************************************)
(* Python dicts: a sequence of [key, value] entries in insertion order;    *)
(* assigning to a key that is present replaces its value in place.         *)
(***************************************************************************)
HasKey(d, k) == \E i \in 1..Len(d) : d[i].key = k

\* d[k], for a key that is present
dict_getitem(d, k) == d[CHOOSE i \in 1..Len(d) : d[i].key = k].value

\* a variant of d[k] = v that keeps the value of a key that is present
\* (dict.setdefault)
dict_setdefault(d, k, v) ==
    IF HasKey(d, k) THEN d ELSE Append(d, [key |-> k, value |-> v])

\* d[k] = v
dict_setitem(d, k, v) ==
    IF HasKey(d, k)
    THEN [i \in 1..Len(d) |-> IF d[i].key = k THEN [key |-> k, value |-> v] ELSE d[i]]
    ELSE Append(d, [key |-> k, value |-> v])

\* list(d.values())
dict_values(d) == [i \in 1..Len(d) |-> d[i].value]

\* list(d), the keys
dict_keys(d) == [i \in 1..Len(d) |-> d[i].key]

(***************************************************************************)
(* The texts given to parse: up to MaxLines lines drawn from LinePool,     *)
(* joined by newlines, the last line with or without its newline.          *)
(***************************************************************************)
LinePool ==
    { <<"a", ":", "1">>,                                  \* a:1
      <<"a", " ", ":", " ", "w">>,                        \* a : w
      DefinePrefix \o <<"w", " ", "v">>,                  \* #define w v
      DefinePrefix \o <<"v", " ", "2">>,                  \* #define v 2
      DefinePrefix \o <<"w", " ", "2">>,                  \* #define w 2
      <<"!", "c">>,                                       \* !c
      <<>>,                                               \* the empty line
      <<" ">>,                                            \* a line of one space
      <<"\t">>,                                           \* a line of one tab
      <<"x">>,                                            \* x (no separator)
      IncludePrefix \o <<"f", "\"">>,                     \* #include "f"
      <<"#">> }                                           \* #

RECURSIVE JoinLines(_, _)
JoinLines(ls, terminated) ==
    IF ls = <<>> THEN <<>>
    ELSE IF Len(ls) = 1 THEN (IF terminated THEN Append(ls[1], "\n") ELSE ls[1])
    ELSE Append(ls[1], "\n") \o JoinLines(Tail(ls), terminated)

Texts ==
    { JoinLines(ls, t) : ls \in UNION { [1..k -> LinePool] : k \in 0..MaxLines },
                         t \in BOOLEAN }

(***************************************************************************)
(* State.  The parser's attributes keep their names; text_iterable is the  *)
(* argument of the parse call, lines its local list (its return value), pc *)
(* the position of the parse call: "idle" before it, "parsing" inside the  *)
(* loop, "done" after it returned, "error" after it raised exc.            *)
(* line_count is the attribute of the XFileView built over the parser      *)
(* (NoView before it is built), filtered the outcome of the last filter    *)
(* call on its resources view.  The last five variables are one call of    *)
(* match_resource: its arguments, its position mpc ("off" when there is    *)
(* none, "start", "constructed" after _MatchResource.__init__, "done"),    *)
(* the _MatchResource object mr and the outcome mr_value.                  *)
(* Three variables follow the calls made on a PeekableIter used alone,     *)
(* over text_iterable: returned holds the characters its __next__ calls    *)
(* returned, call the last call with its outcome, peek_raised the numbers  *)
(* of characters returned at the moments a peek raised StopIteration.      *)
(* Two follow one call of a from_iter on the string text_iterable: its     *)
(* position rpc ("off" when there is none, "start", "done") and outcome.   *)
(***************************************************************************)
VARIABLES text_iterable, pc, exc, iterable, character_queue, current_line,
          resources, defines, includes, comments, whitespace, empty_lines,
          lines, line_count, filtered,
          mpc, mr_resource, mr_string, mr, mr_value,
          returned, call, peek_raised,
          rpc, outcome

parser_vars == <<text_iterable, pc, exc, iterable, character_queue, current_line,
                 resources, defines, includes, comments, whitespace, empty_lines,
                 lines>>
view_vars == <<line_count, filtered>>
match_vars == <<mpc, mr_resource, mr_string, mr, mr_value>>
cursor_vars == <<returned, call, peek_raised>>
recognizer_vars == <<rpc, outcome>>
vars == <<parser_vars, view_vars, match_vars, cursor_vars, recognizer_vars>>

NoView == -1
AssertionFailed == -2
NoFilter == [raised |-> "none", string |-> <<>>, resource_statements |-> <<>>]
NoValue == [raised |-> "none", value |-> FALSE]
NoCall == [op |-> "none", n |-> 0, raised |-> "", char |-> ""]
NoOutcome == [cls |-> "none", linenum |-> 0, raised |-> "", st |-> None]

\* XParser(): XParser.__init__ without a text
XParser_init ==
    /\ text_iterable = <<>>
    /\ pc = "idle"
    /\ exc = NoExc
    /\ iterable = <<>>
    /\ character_queue = <<>>
    /\ current_line = 0
    /\ resources = <<>>
    /\ defines = <<>>
    /\ includes = <<>>
    /\ comments = <<>>
    /\ whitespace = <<>>
    /\ empty_lines = <<>>
    /\ lines = <<>>

NoViews ==
    /\ line_count = NoView
    /\ filtered = NoFilter

\* no call was made on a cursor used alone
NoCalls ==
    /\ returned = <<>>
    /\ call = NoCall
    /\ peek_raised = {}

\* no recognizer was called on a string
NoRecognizer ==
    /\ rpc = "off"
    /\ outcome = NoOutcome

Init ==
    /\ XParser_init
    /\ NoViews
    /\ NoCalls
    /\ NoRecognizer
    /\ mpc = "off"
    /\ mr_resource = <<>>
    /\ mr_string = <<>>
    /\ mr = [raised |-> "none", resource_components |-> <<>>,
             expanded_resource |-> <<>>, string_components |-> <<>>,
             expanded_string |-> <<>>]
    /\ mr_value = NoValue

(***************************************************************************)
(* XParser.parse.                                                          *)
(***************************************************************************)
\* a variant of the head of parse whose clear() leaves empty_lines alone
ParseStart_keeping_empty_lines(t) ==
    /\ pc # "parsing"
    /\ text_iterable' = t
    /\ pc' = "parsing"
    /\ exc' = NoExc
    /\ iterable' = t
    /\ character_queue' = <<>>
    /\ current_line' = 0
    /\ resources' = <<>>
    /\ defines' = <<>>
    /\ comments' = <<>>
    /\ whitespace' = <<>>
    /\ lines' = <<>>
    /\ UNCHANGED <<includes, empty_lines, view_vars, match_vars, cursor_vars,
                   recognizer_vars>>

\* the head of parse: clear(), a new PeekableIter and an empty lines list.
\* clear() leaves `includes` alone.
ParseStart(t) ==
    /\ pc # "parsing"
    /\ text_iterable' = t
    /\ pc' = "parsing"
    /\ exc' = NoExc
    /\ iterable' = t
    /\ character_queue' = <<>>
    /\ current_line' = 0
    /\ resources' = <<>>
    /\ defines' = <<>>
    /\ comments' = <<>>
    /\ whitespace' = <<>>
    /\ empty_lines' = <<>>
    /\ lines' = <<>>
    /\ UNCHANGED <<includes, view_vars, match_vars, cursor_vars, recognizer_vars>>

\* XParser.parse_method_for, on a cursor whose peek() does not raise: the
\* name of the method returned ("None" when the function falls off its end,
\* "StopIteration" when peek(2) raises) and the cursor after the peeks
parse_method_for(q, it) ==
    LET p1 == peek(q, it, 1)
        p2 == peek(p1.character_queue, p1.iterable, 2)
    IN IF p1.char = COMMENT_START
       THEN [method |-> "parse_comment", character_queue |-> p1.character_queue,
             iterable |-> p1.iterable]
       ELSE IF p1.char \in WHITESPACE_CHARS
       THEN [method |-> "parse_white_space", character_queue |-> p1.character_queue,
             iterable |-> p1.iterable]
       ELSE IF p1.char = "#"
       THEN [method |-> IF p2.raised # "" THEN "StopIteration"
                        ELSE IF p2.char = "d" THEN "parse_define"
                        ELSE IF p2.char = "i" THEN "parse_include"
                        ELSE "None",
             character_queue |-> p2.character_queue, iterable |-> p2.iterable]
       ELSE [method |-> "parse_resource", character_queue |-> p1.character_queue,
             iterable |-> p1.iterable]

\* the peek at the head of the loop, and the dispatch that follows it
Peeked == peek(character_queue, iterable, 1)
Method == parse_method_for(Peeked.character_queue, Peeked.iterable)

\* the loop body is entered with method m
Dispatched(m) == pc = "parsing" /\ Peeked.raised = "" /\ Method.method = m

\* the statement was filed: lines.append(value); self.current_line += 1
Recognized(value) ==
    /\ lines' = Append(lines, value)
    /\ current_line' = current_line + 1
    /\ UNCHANGED <<pc, exc>>

\* an exception of the given type leaves parse
Raised(type, line) ==
    /\ pc' = "error"
    /\ exc' = [type |-> type, line |-> line]
    /\ UNCHANGED <<lines, current_line>>

\* the peek at the head of the loop raises StopIteration: break, return lines
ParseEnd ==
    /\ pc = "parsing"
    /\ Peeked.raised # ""
    /\ pc' = "done"
    /\ character_queue' = Peeked.character_queue
    /\ iterable' = Peeked.iterable
    /\ UNCHANGED <<text_iterable, exc, current_line, resources, defines, includes,
                   comments, whitespace, empty_lines, lines, view_vars, match_vars,
                   cursor_vars, recognizer_vars>>

\* one iteration of the loop with method parse_resource
parse_resource ==
    /\ Dispatched("parse_resource")
    /\ \E m \in {Method} :
       \E tl \in {take_line(m.character_queue, m.iterable)} :
       \E r \in {XResourceStatement_from_iter(tl.line, current_line)} :
          /\ character_queue' = tl.character_queue
          /\ iterable' = tl.iterable
          /\ IF r.raised = ""
             THEN /\ resources' = dict_setitem(resources, r.st.resource, r.st)
                  /\ Recognized(r.st)
             ELSE /\ Raised(r.raised, current_line)
                  /\ UNCHANGED resources
    /\ UNCHANGED <<text_iterable, defines, includes, comments, whitespace,
                   empty_lines, view_vars, match_vars, cursor_vars, recognizer_vars>>

\* one iteration of the loop with method parse_comment
parse_comment ==
    /\ Dispatched("parse_comment")
    /\ \E m \in {Method} :
       \E tl \in {take_line(m.character_queue, m.iterable)} :
       \E r \in {XCommentStatement_from_iter(tl.line, current_line)} :
          /\ character_queue' = tl.character_queue
          /\ iterable' = tl.iterable
          /\ IF r.raised = ""
             THEN /\ comments' = Append(comments, r.st)
                  /\ Recognized(r.st)
             ELSE /\ Raised(r.raised, current_line)
                  /\ UNCHANGED comments
    /\ UNCHANGED <<text_iterable, resources, defines, includes, whitespace,
                   empty_lines, view_vars, match_vars, cursor_vars, recognizer_vars>>

\* one iteration of the loop with method parse_define
parse_define ==
    /\ Dispatched("parse_define")
    /\ \E m \in {Method} :
       \E tl \in {take_line(m.character_queue, m.iterable)} :
       \E r \in {XDefineStatement_from_iter(tl.line, current_line)} :
          /\ character_queue' = tl.character_queue
          /\ iterable' = tl.iterable
          /\ IF r.raised = ""
             THEN /\ defines' = dict_setitem(defines, r.st.name, r.st)
                  /\ Recognized(r.st)
             ELSE /\ Raised(r.raised, current_line)
                  /\ UNCHANGED defines
    /\ UNCHANGED <<text_iterable, resources, includes, comments, whitespace,
                   empty_lines, view_vars, match_vars, cursor_vars, recognizer_vars>>

\* one iteration of the loop with method parse_include, which returns None;
\* the AttributeError of a line that does not match carries no line number
parse_include ==
    /\ Dispatched("parse_include")
    /\ \E m \in {Method} :
       \E tl \in {take_line(m.character_queue, m.iterable)} :
       \E r \in {XIncludeStatement_from_iter(tl.line, current_line)} :
          /\ character_queue' = tl.character_queue
          /\ iterable' = tl.iterable
          /\ IF r.raised = ""
             THEN /\ includes' = Append(includes, r.st)
                  /\ Recognized(None)
             ELSE /\ Raised(r.raised, NoLine)
                  /\ UNCHANGED includes
    /\ UNCHANGED <<text_iterable, resources, defines, comments, whitespace,
                   empty_lines, view_vars, match_vars, cursor_vars, recognizer_vars>>

\* a variant of parse_white_space that files the number of the line after
\* the blank line
parse_white_space_next_line ==
    /\ Dispatched("parse_white_space")
    /\ \E m \in {Method} :
       \E tl \in {take_line(m.character_queue, m.iterable)} :
       \E r \in {Whitespace_from_iter(tl.line, current_line)} :
          /\ character_queue' = tl.character_queue
          /\ iterable' = tl.iterable
          /\ IF r.raised = ""
             THEN /\ empty_lines' = Append(empty_lines, current_line + 1)
                  /\ whitespace' = Append(whitespace, r.st)
                  /\ Recognized(r.st)
             ELSE /\ Raised(r.raised, current_line)
                  /\ UNCHANGED <<empty_lines, whitespace>>
    /\ UNCHANGED <<text_iterable, resources, defines, includes, comments, view_vars,
                   match_vars, cursor_vars, recognizer_vars>>

\* one iteration of the loop with method parse_white_space
parse_white_space ==
    /\ Dispatched("parse_white_space")
    /\ \E m \in {Method} :
       \E tl \in {take_line(m.character_queue, m.iterable)} :
       \E r \in {Whitespace_from_iter(tl.line, current_line)} :
          /\ character_queue' = tl.character_queue
          /\ iterable' = tl.iterable
          /\ IF r.raised = ""
             THEN /\ empty_lines' = Append(empty_lines, current_line)
                  /\ whitespace' = Append(whitespace, r.st)
                  /\ Recognized(r.st)
             ELSE /\ Raised(r.raised, current_line)
                  /\ UNCHANGED <<empty_lines, whitespace>>
    /\ UNCHANGED <<text_iterable, resources, defines, includes, comments, view_vars,
                   match_vars, cursor_vars, recognizer_vars>>

\* parse_method_for returned None ('#' followed by neither 'd' nor 'i'):
\* method() raises TypeError
parse_none ==
    /\ Dispatched("None")
    /\ character_queue' = Method.character_queue
    /\ iterable' = Method.iterable
    /\ Raised("TypeError", NoLine)
    /\ UNCHANGED <<text_iterable, resources, defines, includes, comments, whitespace,
                   empty_lines, view_vars, match_vars, cursor_vars, recognizer_vars>>

\* peek(2) inside parse_method_for raised ('#' is the last character): the
\* StopIteration is raised outside the try of the loop and leaves parse
parse_stop ==
    /\ Dispatched("StopIteration")
    /\ character_queue' = Method.character_queue
    /\ iterable' = Method.iterable
    /\ Raised("StopIteration", NoLine)
    /\ UNCHANGED <<text_iterable, resources, defines, includes, comments, whitespace,
                   empty_lines, view_vars, match_vars, cursor_vars, recognizer_vars>>

(***************************************************************************)
(* Serialization: the __str__ of each statement class.                     *)
(***************************************************************************)
str(st) ==
    IF st.cls = "XResourceStatement"
    THEN st.resource \o <<RESOURCE_SEP>> \o st.value \o <<"\n">>
    ELSE IF st.cls = "XDefineStatement"
    THEN <<DEFINE_START>> \o <<"d", "e", "f", "i", "n", "e", " ">> \o st.name
         \o <<" ">> \o st.value \o <<"\n">>
    ELSE IF st.cls = "XCommentStatement"
    THEN <<COMMENT_START>> \o st.comment \o <<"\n">>
    ELSE IF st.cls = "XIncludeStatement"
    THEN IncludePrefix \o st.file \o <<"\"">>
    ELSE st.line_string

(***************************************************************************)
(* The views.  A view holds references to the parser's collections, so its *)
(* operators read the collections as they are when the query is made.      *)
(***************************************************************************)
\* XStatement.line is defined by every class but XIncludeStatement, whose
\* __init__ never sets _line
HasLine(st) == st.cls # "XIncludeStatement"

\* BaseView.statement_at_line over the statements of one view, in their
\* iteration order
statement_at_line(x_statements, line_num) ==
    LET Stops(i) == ~HasLine(x_statements[i]) \/ x_statements[i].line = line_num
    IN IF \E i \in 1..Len(x_statements) : Stops(i)
       THEN LET i == CHOOSE i \in 1..Len(x_statements) :
                        Stops(i) /\ \A j \in 1..(i - 1) : ~Stops(j)
            IN IF HasLine(x_statements[i])
               THEN [raised |-> "", st |-> x_statements[i]]
               ELSE [raised |-> "AttributeError", st |-> None]
       ELSE [raised |-> "IndexError", st |-> None]

\* XFileView.views, each as the list of its x_statements
views == <<dict_values(resources), dict_values(defines), includes, comments,
           whitespace>>

\* the loop of XFileView.x_statement from view number i on: the first view
\* that does not raise IndexError decides
RECURSIVE x_statement_from(_, _)
x_statement_from(i, line_num) ==
    IF i > Len(views) THEN [raised |-> "IndexError", st |-> None]
    ELSE LET r == statement_at_line(views[i], line_num) IN
         IF r.raised = "IndexError" THEN x_statement_from(i + 1, line_num) ELSE r

\* XFileView.x_statement(line_num), also __getitem__
x_statement(line_num) == x_statement_from(1, line_num)

\* BaseView.text_at_line over the statements of one view
BaseView_text_at_line(x_statements, line_num) ==
    LET r == statement_at_line(x_statements, line_num) IN
    IF r.raised = "" THEN [raised |-> "", text |-> str(r.st)]
    ELSE [raised |-> r.raised, text |-> <<>>]

RECURSIVE text_at_line_from(_, _)
text_at_line_from(i, line_num) ==
    IF i > Len(views) THEN [raised |-> "IndexError", text |-> <<>>]
    ELSE LET r == BaseView_text_at_line(views[i], line_num) IN
         IF r.raised = "IndexError" THEN text_at_line_from(i + 1, line_num) ELSE r

\* XFileView.text_at_line(line_num)
text_at_line(line_num) == text_at_line_from(1, line_num)

\* XFileView.full_text from line n on: the texts of the lines n, n + 1, ...
\* up to the first line that raises IndexError; another exception leaves
\* full_text
RECURSIVE full_text_from(_)
full_text_from(n) ==
    LET r == text_at_line(n) IN
    IF r.raised = "IndexError" THEN [raised |-> "", text |-> <<>>]
    ELSE IF r.raised # "" THEN r
    ELSE LET rest == full_text_from(n + 1) IN
         IF rest.raised # "" THEN rest
         ELSE [raised |-> "", text |-> r.text \o rest.text]

\* XFileView.full_text()
full_text == full_text_from(0)

\* DefinitionsView.__getitem__(key)
DefinitionsView_getitem(define_statements, key) ==
    IF HasKey(define_statements, key)
    THEN [raised |-> "", value |-> dict_getitem(define_statements, key).value]
    ELSE [raised |-> "KeyError", value |-> <<>>]

\* Mapping.get(key, default) of the definitions view: __getitem__, with
\* the default on KeyError
DefinitionsView_get(define_statements, key, default) ==
    LET r == DefinitionsView_getitem(define_statements, key) IN
    IF r.raised = "KeyError" THEN default ELSE r.value

\* a variant of ResourcesView.__getitem__ that expands the value found once
\* more
ResourcesView_getitem_expand_again(resource_statements, define_statements, key) ==
    IF HasKey(resource_statements, key)
    THEN LET raw_val == dict_getitem(resource_statements, key).value
             once == DefinitionsView_get(define_statements, raw_val, raw_val)
         IN [raised |-> "", value |-> DefinitionsView_get(define_statements, once, once)]
    ELSE [raised |-> "KeyError", value |-> <<>>]

\* a variant of ResourcesView.__getitem__ that resolves against the defines
\* of the lines before the resource's line only, as a resolution made while
\* parsing would
ResourcesView_getitem_parse_time(resource_statements, define_statements, key) ==
    IF HasKey(resource_statements, key)
    THEN LET st == dict_getitem(resource_statements, key)
             earlier == SelectSeq(define_statements, LAMBDA e : e.value.line < st.line)
         IN [raised |-> "", value |-> DefinitionsView_get(earlier, st.value, st.value)]
    ELSE [raised |-> "KeyError", value |-> <<>>]

\* ResourcesView.__getitem__(key) of a view over resource_statements with
\* the definitions view over define_statements as its definition_ctx
ResourcesView_getitem(resource_statements, define_statements, key) ==
    IF HasKey(resource_statements, key)
    THEN LET raw_val == dict_getitem(resource_statements, key).value IN
         [raised |-> "", value |-> DefinitionsView_get(define_statements, raw_val, raw_val)]
    ELSE [raised |-> "KeyError", value |-> <<>>]

\* XFileView.__len__()
XFileView_len == line_count

\* CommentsView.__getitem__(key), key >= 0: the attribute `value` of the
\* statement at the index; a statement without it raises AttributeError
CommentsView_getitem(key) ==
    IF key >= Len(comments) THEN [raised |-> "IndexError", value |-> <<>>]
    ELSE IF "value" \in DOMAIN comments[key + 1]
    THEN [raised |-> "", value |-> comments[key + 1].value]
    ELSE [raised |-> "AttributeError", value |-> <<>>]

\* CommentsView.__len__()
CommentsView_len == Len(comments)

\* EmptyLinesView.__len__(): asserts that the two lists are as long
EmptyLinesView_len ==
    IF Len(whitespace) = Len(empty_lines)
    THEN [raised |-> "", value |-> Len(whitespace)]
    ELSE [raised |-> "AssertionError", value |-> 0]

\* EmptyLinesView.__getitem__(n), n >= 0: the line number of the n-th empty
\* line
EmptyLinesView_getitem(n) ==
    IF n < Len(empty_lines)
    THEN [raised |-> "", value |-> empty_lines[n + 1]]
    ELSE [raised |-> "IndexError", value |-> NoLine]

(***************************************************************************)
(* The wildcard matcher, match.py.  A component is a string; the wildcard  *)
(* components are <<"*">> and <<"?">>.                                     *)
(***************************************************************************)
STAR == <<"*">>
QUESTION == <<"?">>

\* the loop of components(): comp is the component being read, result the
\* components read so far (empty ones included)
RECURSIVE components_loop(_, _, _)
components_loop(s, comp, result) ==
    IF s = <<>> THEN Append(result, comp)
    ELSE LET char == Head(s) IN
         IF char = "."
         THEN components_loop(Tail(s), <<>>, Append(result, comp))
         ELSE IF char \in WILDCARDS
         THEN components_loop(Tail(s), <<>>, Append(Append(result, comp), <<char>>))
         ELSE components_loop(Tail(s), Append(comp, char), result)

\* _MatchResource.components(resource_id): result[-1] raises IndexError on
\* an identifier without a non-empty component
components(resource_id) ==
    LET result == SelectSeq(components_loop(resource_id, <<>>, <<>>),
                            LAMBDA ele : ele # <<>>)
    IN IF result = <<>> THEN [raised |-> "IndexError", result |-> <<>>]
       ELSE IF result[Len(result)] \in {STAR, QUESTION}
       THEN [raised |-> "ValueError", result |-> <<>>]
       ELSE [raised |-> "", result |-> result]

\* a variant of pad_components that removes the star and inserts nothing
pad_components_unpadded(comps, length) ==
    LET resource_wild == FirstIndex(comps, STAR) IN
    IF resource_wild = 0 THEN comps
    ELSE SubSeq(comps, 1, resource_wild - 1)
         \o SubSeq(comps, resource_wild + 1, Len(comps))

\* a variant of pad_components that inserts one token fewer
pad_components_one_short(comps, length) ==
    LET resource_wild == FirstIndex(comps, STAR) IN
    IF resource_wild = 0 THEN comps
    ELSE LET k == length - Len(comps) IN
         SubSeq(comps, 1, resource_wild - 1)
         \o [i \in 1..(IF k > 0 THEN k ELSE 0) |-> QUESTION]
         \o SubSeq(comps, resource_wild + 1, Len(comps))

\* _MatchResource.pad_components(components, length)
pad_components(comps, length) ==
    LET resource_wild == FirstIndex(comps, STAR) IN
    IF resource_wild = 0 THEN comps
    ELSE LET before == SubSeq(comps, 1, resource_wild - 1)
             after == SubSeq(comps, resource_wild + 1, Len(comps))
             k == length - (Len(comps) - 1)
         IN before \o [i \in 1..(IF k > 0 THEN k ELSE 0) |-> QUESTION] \o after

\* _MatchResource.compare_component
compare_component(comp_1, comp_2) ==
    IF comp_1 = QUESTION \/ comp_2 = QUESTION THEN TRUE ELSE comp_1 = comp_2

\* _MatchResource.compare: all() over zip(), which stops at the shorter list
compare(expanded_resource, expanded_string) ==
    \A i \in 1..(IF Len(expanded_resource) <= Len(expanded_string)
                 THEN Len(expanded_resource) ELSE Len(expanded_string)) :
        compare_component(expanded_resource[i], expanded_string[i])

NoMatchResource ==
    [raised |-> "none", resource_components |-> <<>>, expanded_resource |-> <<>>,
     string_components |-> <<>>, expanded_string |-> <<>>]

\* _MatchResource.__init__(resource, string)
MatchResource_init(resource, string) ==
    LET rc == components(resource)
        sc == components(string)
        pad_len == IF Len(rc.result) >= Len(sc.result) THEN Len(rc.result)
                   ELSE Len(sc.result)
    IN IF rc.raised # "" THEN [NoMatchResource EXCEPT !.raised = rc.raised]
       ELSE IF sc.raised # "" THEN [NoMatchResource EXCEPT !.raised = sc.raised]
       ELSE [raised |-> "",
             resource_components |-> rc.result,
             expanded_resource |-> pad_components(rc.result, pad_len),
             string_components |-> sc.result,
             expanded_string |-> pad_components(sc.result, pad_len)]

\* match_resource(resource, string)
match_resource(resource, string) ==
    LET m == MatchResource_init(resource, string) IN
    IF m.raised # "" THEN [raised |-> m.raised, value |-> FALSE]
    ELSE [raised |-> "", value |-> compare(m.expanded_resource, m.expanded_string)]

(***************************************************************************)
(* ResourcesView.filter.                                                   *)
(***************************************************************************)
\* the parameters of match_resource, and the keywords ResourcesView.filter
\* calls it with
match_resource_params == {"resource", "string"}
filter_call_keywords == {"resource", "pattern"}

\* the loop of filter over the ids not yet visited, had the call of
\* match_resource been accepted: an exception of the matcher leaves filter
RECURSIVE filter_loop(_, _, _, _)
filter_loop(resource_statements, ids, string, acc) ==
    IF ids = <<>> THEN [raised |-> "", string |-> string, resource_statements |-> acc]
    ELSE LET m == match_resource(Head(ids), string) IN
         IF m.raised # ""
         THEN [raised |-> m.raised, string |-> string, resource_statements |-> <<>>]
         ELSE filter_loop(resource_statements, Tail(ids), string,
                          IF m.value
                          THEN dict_setitem(acc, Head(ids),
                                            dict_getitem(resource_statements, Head(ids)))
                          ELSE acc)

\* ResourcesView.filter(string): the first call match_resource(resource=...,
\* pattern=...) raises TypeError, since match_resource has no parameter
\* named pattern; a view without resources never makes the call
ResourcesView_filter(resource_statements, string) ==
    IF resource_statements = <<>>
    THEN [raised |-> "", string |-> string, resource_statements |-> <<>>]
    ELSE IF ~(filter_call_keywords \subseteq match_resource_params)
    THEN [raised |-> "TypeError", string |-> string, resource_statements |-> <<>>]
    ELSE filter_loop(resource_statements, dict_keys(resource_statements), string, <<>>)

(***************************************************************************)
(* The operations on the views of a parser that is not inside parse.       *)
(***************************************************************************)
\* XFileView(parser): EmptyLinesView.__init__ asserts that empty_lines is
\* the list of the lines of the whitespace statements, then line_count is
\* set from the parser's counter
XFileView_init ==
    /\ pc # "parsing"
    /\ line_count = NoView
    /\ line_count' = IF empty_lines = [i \in 1..Len(whitespace) |-> whitespace[i].line]
                     THEN current_line + 1
                     ELSE AssertionFailed
    /\ UNCHANGED <<parser_vars, filtered, match_vars, cursor_vars, recognizer_vars>>

\* the strings given to filter
Patterns == { <<"a">>, <<"*", "b">> }

\* view.resources.filter(string) on the XFileView built over the parser;
\* the outcome is kept in filtered
Filter(string) ==
    /\ pc # "parsing"
    /\ line_count >= 0
    /\ filtered = NoFilter
    /\ filtered' = ResourcesView_filter(resources, string)
    /\ UNCHANGED <<parser_vars, line_count, match_vars, cursor_vars, recognizer_vars>>

\* parser.parse(text) on the fresh parser
Parse == pc = "idle" /\ \E t \in Texts : ParseStart(t)

Next ==
    \/ Parse
    \/ ParseEnd
    \/ parse_resource
    \/ parse_comment
    \/ parse_define
    \/ parse_include
    \/ parse_white_space
    \/ parse_none
    \/ parse_stop
    \/ XFileView_init
    \/ \E string \in Patterns : Filter(string)

\* a fresh parser, one parse call, then the views
Spec == Init /\ [][Next]_vars

\* one iteration of the while loop of parse, or its break
ParseLoop ==
    \/ ParseEnd
    \/ parse_resource
    \/ parse_comment
    \/ parse_define
    \/ parse_include
    \/ parse_white_space
    \/ parse_none
    \/ parse_stop

PassTexts ==
    { JoinLines(ls, t) : ls \in UNION { [1..k -> LinePool] : k \in 0..MaxPassLines },
                         t \in BOOLEAN }

\* parser.parse(text) on the fresh parser
ParsePass == pc = "idle" /\ \E t \in PassTexts : ParseStart(t)

NextPass ==
    \/ ParsePass
    \/ ParseLoop

\* one parse call on a fresh parser; parse is a plain loop of one thread,
\* which goes on to its next iteration whenever there is one
SpecPass == Init /\ [][NextPass]_vars /\ WF_vars(ParseLoop)

(***************************************************************************)
(* One parser used for several parse calls, with clear() calls and the     *)
(* construction of the view in between.                                    *)
(***************************************************************************)
ReLinePool ==
    { <<"a", ":", "1">>,                                  \* a:1
      DefinePrefix \o <<"w", " ", "v">>,                  \* #define w v
      <<"!", "c">>,                                       \* !c
      <<>>,                                               \* the empty line
      <<"x">>,                                            \* x (no separator)
      IncludePrefix \o <<"f", "\"">>,                     \* #include "f"
      <<"#">> }                                           \* #

ReTexts ==
    { JoinLines(ls, t) : ls \in UNION { [1..k -> ReLinePool] : k \in 0..MaxReLines },
                         t \in BOOLEAN }

\* parser.parse(text) on a parser that is not inside parse, whatever calls
\* were made on it before
Reparse ==
    /\ pc # "parsing"
    /\ Len(includes) < MaxIncludes
    /\ \E t \in ReTexts : ParseStart(t)

\* parser.clear() called from outside parse: no parse call is left whose
\* text, cursor, outcome or returned list could be looked at
clear ==
    /\ pc \in {"done", "error"}
    /\ pc' = "idle"
    /\ text_iterable' = <<>>
    /\ exc' = NoExc
    /\ iterable' = <<>>
    /\ character_queue' = <<>>
    /\ current_line' = 0
    /\ resources' = <<>>
    /\ defines' = <<>>
    /\ comments' = <<>>
    /\ whitespace' = <<>>
    /\ empty_lines' = <<>>
    /\ lines' = <<>>
    /\ UNCHANGED <<includes, view_vars, match_vars, cursor_vars, recognizer_vars>>

NextReparse ==
    \/ Reparse
    \/ ParseLoop
    \/ clear
    \/ XFileView_init

SpecReparse == Init /\ [][NextReparse]_vars

(***************************************************************************)
(* One call of match_resource on a pair of identifiers.                    *)
(***************************************************************************)
IdChars == {"a", "b", ".", "*", "?"}

\* the identifiers of the docstring of _MatchResource
RefA == <<"c", "o", "m", "p", "_", "a">>
RefB == <<"c", "o", "m", "p", "_", "b">>
RefD == <<"c", "o", "m", "p", "_", "d">>
RefAttr == <<"a", "t", "t", "r", "i", "b", "u", "t", "e">>
Ref1 == RefA \o <<".", "*", ".">> \o RefD \o <<".">> \o RefAttr
Ref2 == RefA \o <<".", "*", ".">> \o RefAttr
Ref3 == RefA \o <<".">> \o RefB \o <<".", "*", ".">> \o RefAttr
Ref4 == RefA \o <<".">> \o RefB \o <<".", "*", ".">> \o RefD \o <<".">> \o RefAttr
Ref5 == RefA \o <<".", "?", ".", "?", ".">> \o RefD \o <<".">> \o RefAttr
RefIds == {Ref1, Ref2, Ref3, Ref4, Ref5}

\* the identifiers given to match_resource
Ids == UNION { [1..k -> IdChars] : k \in 0..MaxIdLen } \cup RefIds

InitMatch ==
    /\ XParser_init
    /\ NoViews
    /\ NoCalls
    /\ NoRecognizer
    /\ mpc = "start"
    /\ mr_resource \in Ids
    /\ mr_string \in Ids
    /\ mr = NoMatchResource
    /\ mr_value = NoValue

\* mr = _MatchResource(resource, string); an exception of components leaves
\* match_resource
MatchResource_construct ==
    /\ mpc = "start"
    /\ mr' = MatchResource_init(mr_resource, mr_string)
    /\ IF mr'.raised # ""
       THEN mpc' = "done" /\ mr_value' = [raised |-> mr'.raised, value |-> FALSE]
       ELSE mpc' = "constructed" /\ UNCHANGED mr_value
    /\ UNCHANGED <<parser_vars, view_vars, cursor_vars, recognizer_vars, mr_resource, mr_string>>

\* return mr.compare()
MatchResource_compare ==
    /\ mpc = "constructed"
    /\ mpc' = "done"
    /\ mr_value' = [raised |-> "", value |-> compare(mr.expanded_resource, mr.expanded_string)]
    /\ UNCHANGED <<parser_vars, view_vars, cursor_vars, recognizer_vars, mr_resource, mr_string, mr>>

NextMatch ==
    \/ MatchResource_construct
    \/ MatchResource_compare

SpecMatch == InitMatch /\ [][NextMatch]_vars

(***************************************************************************)
(* A PeekableIter used alone: peek(n) and __next__ calls in any order on   *)
(* the cursor over a text.                                                 *)
(***************************************************************************)
CursorChars == {"a", "b"}

\* the texts a cursor is made over
CursorTexts == UNION { [1..k -> CursorChars] : k \in 0..MaxText }

\* PeekableIter(text_iterable), the parser untouched
InitCursor ==
    /\ text_iterable \in CursorTexts
    /\ iterable = text_iterable
    /\ character_queue = <<>>
    /\ pc = "idle"
    /\ exc = NoExc
    /\ current_line = 0
    /\ resources = <<>>
    /\ defines = <<>>
    /\ includes = <<>>
    /\ comments = <<>>
    /\ whitespace = <<>>
    /\ empty_lines = <<>>
    /\ lines = <<>>
    /\ NoViews
    /\ mpc = "off"
    /\ mr_resource = <<>>
    /\ mr_string = <<>>
    /\ mr = NoMatchResource
    /\ mr_value = NoValue
    /\ NoCalls
    /\ NoRecognizer

\* the rest of the state, which a call on the cursor leaves alone
cursor_frame ==
    <<text_iterable, pc, exc, current_line, resources, defines, includes, comments,
      whitespace, empty_lines, lines, view_vars, match_vars, recognizer_vars>>

\* a call of peek(n) on the cursor
Cursor_peek(n) ==
    /\ LET r == peek(character_queue, iterable, n) IN
       /\ character_queue' = r.character_queue
       /\ iterable' = r.iterable
       /\ call' = [op |-> "peek", n |-> n, raised |-> r.raised, char |-> r.char]
       /\ peek_raised' = IF r.raised = "" THEN peek_raised
                         ELSE peek_raised \cup {Len(returned)}
    /\ UNCHANGED <<returned, cursor_frame>>

\* a call of next() on the cursor
Cursor_next ==
    /\ LET r == PeekableIter_next(character_queue, iterable) IN
       /\ character_queue' = r.character_queue
       /\ iterable' = r.iterable
       /\ call' = [op |-> "next", n |-> 0, raised |-> r.raised, char |-> r.char]
       /\ returned' = IF r.raised = "" THEN Append(returned, r.char) ELSE returned
    /\ UNCHANGED <<peek_raised, cursor_frame>>

NextCursor ==
    \/ \E n \in 1..MaxPeek : Cursor_peek(n)
    \/ Cursor_next

SpecCursor == InitCursor /\ [][NextCursor]_vars

(***************************************************************************)
(* One call of a statement recognizer on a string, as the tests of         *)
(* from_iter make it.                                                      *)
(***************************************************************************)
\* the leading tokens of the strings, and the characters that follow them
LeadingTokens ==
    { <<>>,
      <<"#", "d", "e", "f", "i", "n", "e">>,                  \* #define
      DefinePrefix,                                           \* #define and a space
      <<"#", "n", "o", "d", "e", "f", "i", "n", "e", " ">>,   \* #nodefine and a space
      <<"d", "e", "f", "i", "n", "e", " ">> }                 \* define and a space
TailChars == {"a", ":", " ", "!", "\t", "\n"}

\* the strings given to a recognizer
Strings ==
    { t \o s : t \in LeadingTokens,
               s \in UNION { [1..k -> TailChars] : k \in 0..MaxTail } }

\* the line numbers given to a recognizer
LineNums == {0, 1}

InitRecognize ==
    /\ text_iterable \in Strings
    /\ iterable = <<>>
    /\ character_queue = <<>>
    /\ pc = "idle"
    /\ exc = NoExc
    /\ current_line = 0
    /\ resources = <<>>
    /\ defines = <<>>
    /\ includes = <<>>
    /\ comments = <<>>
    /\ whitespace = <<>>
    /\ empty_lines = <<>>
    /\ lines = <<>>
    /\ NoViews
    /\ mpc = "off"
    /\ mr_resource = <<>>
    /\ mr_string = <<>>
    /\ mr = NoMatchResource
    /\ mr_value = NoValue
    /\ NoCalls
    /\ rpc = "start"
    /\ outcome = NoOutcome

\* the first line of the string, which every from_iter takes first
TakenLine == take_line(<<>>, text_iterable).line

\* cls.from_iter(text_iterable, linenum) returned, or raised, as r says
from_iter_call(cls, linenum, r) ==
    /\ rpc = "start"
    /\ rpc' = "done"
    /\ outcome' = [cls |-> cls, linenum |-> linenum, raised |-> r.raised, st |-> r.st]
    /\ UNCHANGED <<parser_vars, view_vars, match_vars, cursor_vars>>

\* XResourceStatement.from_iter(string, linenum)
Recognize_resource ==
    \E linenum \in LineNums :
        from_iter_call("XResourceStatement", linenum,
                       XResourceStatement_from_iter(TakenLine, linenum))

\* XDefineStatement.from_iter(string, linenum)
Recognize_define ==
    \E linenum \in LineNums :
        from_iter_call("XDefineStatement", linenum,
                       XDefineStatement_from_iter(TakenLine, linenum))

\* XCommentStatement.from_iter(string, linenum)
Recognize_comment ==
    \E linenum \in LineNums :
        from_iter_call("XCommentStatement", linenum,
                       XCommentStatement_from_iter(TakenLine, linenum))

NextRecognize ==
    \/ Recognize_resource
    \/ Recognize_define
    \/ Recognize_comment

SpecRecognize == InitRecognize /\ [][NextRecognize]_vars

(***************************************************************************)
(* Properties of one parse and of the views built over it (Spec).          *)
(***************************************************************************)
\* lines[i] is the last resource statement of its id among the statements
\* recognized
LastResource(i) ==
    /\ lines[i].cls = "XResourceStatement"
    /\ \A j \in (i + 1)..Len(lines) :
           ~(lines[j].cls = "XResourceStatement" /\ lines[j].resource = lines[i].resource)

\* lines[i] is the last define statement of its name among the statements
\* recognized
LastDefine(i) ==
    /\ lines[i].cls = "XDefineStatement"
    /\ \A j \in (i + 1)..Len(lines) :
           ~(lines[j].cls = "XDefineStatement" /\ lines[j].name = lines[i].name)

\* the number of entries of dict d with key k
Entries(d, k) == Cardinality({i \in 1..Len(d) : d[i].key = k})

\* C1 (as claimed): after a parse that succeeds, full_text() returns the
\* parsed text character for character.
C1_RoundTrip ==
    pc = "done" => full_text = [raised |-> "", text |-> text_iterable]

\* C2 (as claimed): after a parse that succeeds on n lines, x_statement(l)
\* returns a statement whose line is l for every l in 0..n-1 and raises
\* IndexError for every other l.
C2_EveryLineOneStatement ==
    pc = "done" =>
        \A l \in -1..(current_line + 1) :
            IF 0 <= l /\ l < current_line
            THEN x_statement(l).raised = "" /\ x_statement(l).st.line = l
            ELSE x_statement(l).raised = "IndexError"

\* the loop is about to recognize a resource line (a define line) whose key
\* is already in the collection
NextIsDuplicate ==
    \/ /\ Dispatched("parse_resource")
       /\ LET r == XResourceStatement_from_iter(
                       take_line(Method.character_queue, Method.iterable).line,
                       current_line)
          IN r.raised = "" /\ HasKey(resources, r.st.resource)
    \/ /\ Dispatched("parse_define")
       /\ LET r == XDefineStatement_from_iter(
                       take_line(Method.character_queue, Method.iterable).line,
                       current_line)
          IN r.raised = "" /\ HasKey(defines, r.st.name)

\* the collections hold, for every key, one entry, and the queries return
\* the value of the key's last occurrence
LastOccurrenceWins ==
    pc = "done" =>
        \A i \in 1..Len(lines) :
            /\ LastResource(i) =>
                   /\ Entries(resources, lines[i].resource) = 1
                   /\ dict_getitem(resources, lines[i].resource) = lines[i]
                   /\ ResourcesView_getitem(resources, defines, lines[i].resource)
                          = [raised |-> "",
                             value |-> DefinitionsView_get(defines, lines[i].value,
                                                           lines[i].value)]
            /\ LastDefine(i) =>
                   /\ Entries(defines, lines[i].name) = 1
                   /\ DefinitionsView_getitem(defines, lines[i].name)
                          = [raised |-> "", value |-> lines[i].value]

\* C3: a repeated resource id or define name does not make the parse fail,
\* the collection holds one entry for the key, and resource(id) and
\* define(name) return the value of the last occurrence.
C3_DuplicateKeys ==
    /\ []LastOccurrenceWins
    /\ [][NextIsDuplicate => pc' = "parsing"]_vars

\* a parse of a text with a repeated resource id and a repeated define
\* name, the occurrences with different values, has succeeded
C3_Witness ==
    /\ pc = "done"
    /\ \E i, j \in 1..Len(lines) :
           /\ i < j
           /\ lines[i].cls = "XResourceStatement" /\ LastResource(j)
           /\ lines[i].resource = lines[j].resource /\ lines[i].value # lines[j].value
           /\ ResourcesView_getitem(resources, defines, lines[j].resource).raised = ""

\* a parse with a define name on two lines with different values succeeded
C3_WitnessDefine ==
    /\ pc = "done"
    /\ \E i, j \in 1..Len(lines) :
           /\ i < j
           /\ lines[i].cls = "XDefineStatement" /\ LastDefine(j)
           /\ lines[i].name = lines[j].name /\ lines[i].value # lines[j].value

\* C4: resource(id) is the value of the define whose name equals the
\* resource's raw value when there is one, and the raw value otherwise; the
\* define's value is returned as it is, also when it names a define.
C4_SingleLookup ==
    pc = "done" =>
        \A i \in 1..Len(resources) :
            LET raw_val == resources[i].value.value
                got == ResourcesView_getitem(resources, defines, resources[i].key)
            IN /\ got.raised = ""
               /\ \A j \in 1..Len(defines) :
                      defines[j].key = raw_val => got.value = defines[j].value.value
               /\ (\A j \in 1..Len(defines) : defines[j].key # raw_val)
                      => got.value = raw_val

\* a resource whose raw value names a define whose value names another
\* define with another value
C4_Witness ==
    /\ pc = "done"
    /\ \E i \in 1..Len(resources), j, k \in 1..Len(defines) :
           /\ defines[j].key = resources[i].value.value
           /\ defines[k].key = defines[j].value.value
           /\ defines[k].value.value # defines[j].value.value
           /\ ResourcesView_getitem(resources, defines, resources[i].key).value
                  = defines[j].value.value

\* C5: a resource whose raw value names a define resolves to the value of
\* the last define line of that name, wherever that line stands relative to
\* the resource line.
C5_FinalDefineTable ==
    pc = "done" =>
        \A i, j \in 1..Len(lines) :
            (LastResource(i) /\ LastDefine(j) /\ lines[j].name = lines[i].value)
                => ResourcesView_getitem(resources, defines, lines[i].resource)
                       = [raised |-> "", value |-> lines[j].value]

\* the define line that decides comes after the resource line
C5_Witness ==
    /\ pc = "done"
    /\ \E i, j \in 1..Len(lines) :
           /\ i < j
           /\ LastResource(i) /\ LastDefine(j) /\ lines[j].name = lines[i].value
           /\ lines[j].value # lines[i].value
           /\ ResourcesView_getitem(resources, defines, lines[i].resource).value
                  = lines[j].value

\* C9 (as claimed): filter(string) returns a view of exactly the resources
\* whose id matches string, which resolve as in the original view, and
\* leaves the original view as it was.
C9_FilterExact ==
    filtered.raised # "none" =>
        /\ filtered.raised = ""
        /\ \A i \in 1..Len(resources) :
               HasKey(filtered.resource_statements, resources[i].key)
                   <=> match_resource(resources[i].key, filtered.string).value
        /\ \A i \in 1..Len(filtered.resource_statements) :
               LET k == filtered.resource_statements[i].key IN
               /\ HasKey(resources, k)
               /\ ResourcesView_getitem(filtered.resource_statements, defines, k)
                      = ResourcesView_getitem(resources, defines, k)

\* C10 (as claimed): a parse that fails carries the number of the offending
\* line, and leaves no document of the lines before it to be viewed.
C10_AbortNoPartial ==
    pc = "error" =>
        /\ exc.line = current_line
        /\ ~(line_count # NoView /\ current_line > 0)

\* the leading token of a define line
DefineToken == <<DEFINE_START, "d", "e", "f", "i", "n", "e">>

\* the line the loop is about to take
NextLine == take_line(character_queue, iterable).line

\* the loop is at a line that starts with '#' and not with #define
AtHashLine ==
    /\ pc = "parsing"
    /\ Peeked.raised = ""
    /\ Peeked.char = DEFINE_START
    /\ ~StartsWith(NextLine, DefineToken)

\* C11 (as claimed): a line that starts with '#' and is not a #define line
\* is dispatched to the resource recognizer and makes parse raise
\* XParseError; it is not filed as a statement of any kind.
C11_HashLineRejected ==
    [][AtHashLine =>
           /\ Method.method = "parse_resource"
           /\ pc' = "error"
           /\ exc'.type = "XParseError"
           /\ includes' = includes
           /\ lines' = lines]_vars

\* the lines of a text: the runs of characters between its newlines; a
\* newline at the end of the text ends the last line and starts none
RECURSIVE InputLines(_)
InputLines(t) ==
    LET p == FirstIndex(t, "\n") IN
    IF t = <<>> THEN <<>>
    ELSE IF p = 0 THEN <<t>>
    ELSE <<SubSeq(t, 1, p - 1)>> \o InputLines(SubSeq(t, p + 1, Len(t)))

\* the 0-based numbers, in increasing order, of the lines of text t that
\* hold nothing but whitespace
BlankLineNumbers(t) ==
    LET ls == InputLines(t)
        IsBlank(n) == \A i \in 1..Len(ls[n + 1]) : ls[n + 1][i] \in PyWhitespace
    IN SelectSeq([i \in 1..Len(ls) |-> i - 1], IsBlank)

\* C12: after a parse that succeeds, the empty lines view can be built, and
\* its items are the 0-based numbers of the whitespace-only lines of the
\* text, in increasing order, its length their number.
C12_BlankLines ==
    (pc = "done" /\ line_count # NoView) =>
        LET blank == BlankLineNumbers(text_iterable) IN
        /\ line_count # AssertionFailed
        /\ EmptyLinesView_len = [raised |-> "", value |-> Len(blank)]
        /\ \A n \in 0..(Len(blank) - 1) :
               EmptyLinesView_getitem(n) = [raised |-> "", value |-> blank[n + 1]]
        /\ EmptyLinesView_getitem(Len(blank)).raised = "IndexError"

\* the view over a parse of a text whose lines number 0 and 2 are blank and
\* whose line number 1 is not, as in "\na:1\n\n"
C12_Witness ==
    /\ pc = "done"
    /\ line_count >= 0
    /\ BlankLineNumbers(text_iterable) = <<0, 2>>
    /\ EmptyLinesView_getitem(0).value = 0
    /\ EmptyLinesView_getitem(1).value = 2

\* C13 (as claimed): the counter equals the number of statements recognized
\* so far, and the k-th statement recognized (k = 0, 1, ...) is a statement
\* with line number k, whatever its kind.
C13_LineNumbers ==
    /\ current_line = Len(lines)
    /\ \A k \in 0..(Len(lines) - 1) :
           lines[k + 1] # None /\ HasLine(lines[k + 1]) /\ lines[k + 1].line = k
    /\ \A i \in 1..Len(includes) : HasLine(includes[i])

\* C14 (as claimed): the length of the document view built after a parse
\* that succeeds is the number of lines parsed, which is the number of
\* statements recognized.
C14_LineCount ==
    (pc = "done" /\ line_count >= 0) =>
        /\ XFileView_len = Len(lines)
        /\ XFileView_len = Len(InputLines(text_iterable))

\* the texts of the lines from, from + 1, ..., to that have one, concatenated
RECURSIVE TextsOfLines(_, _)
TextsOfLines(from, to) ==
    IF from > to THEN <<>>
    ELSE (IF text_at_line(from).raised = "" THEN text_at_line(from).text ELSE <<>>)
         \o TextsOfLines(from + 1, to)

\* C15 (as claimed): after a parse that succeeds, full_text() returns the
\* texts text_at_line(l) of the lines l from 0 up to the line count of the
\* view, concatenated in increasing order, the last parsed line included.
C15_FullTextAllLines ==
    (pc = "done" /\ line_count >= 0) =>
        full_text = [raised |-> "", text |-> TextsOfLines(0, XFileView_len)]

\* the texts after the marker of the comment lines of text t, in line order
CommentTexts(t) ==
    LET cs == SelectSeq(InputLines(t), LAMBDA l : l # <<>> /\ l[1] = COMMENT_START)
    IN [i \in 1..Len(cs) |-> Tail(cs[i])]

\* C16 (as claimed): after a parse that succeeds, the comments view is as
\* long as the text has comment lines, and its item i is the text of the
\* i-th comment line, for every i below that number.
C16_CommentsByIndex ==
    (pc = "done" /\ line_count >= 0) =>
        /\ CommentsView_len = Len(CommentTexts(text_iterable))
        /\ \A i \in 0..(CommentsView_len - 1) :
               CommentsView_getitem(i)
                   = [raised |-> "", value |-> CommentTexts(text_iterable)[i + 1]]

\* the characters the cursor has not handed out yet
Remaining == character_queue \o iterable

\* s without its first n lines and their newlines
RECURSIVE DropLines(_, _)
DropLines(s, n) ==
    IF n = 0 THEN s
    ELSE LET p == FirstIndex(s, "\n") IN
         IF p = 0 THEN <<>> ELSE DropLines(SubSeq(s, p + 1, Len(s)), n - 1)

\* a recognizer call has just succeeded
RecognizerSucceeded ==
    pc = "parsing" /\ pc' = "parsing" /\ current_line' = current_line + 1

\* C24: a successful recognizer call takes from the cursor the characters
\* of one line and its newline and nothing after it, so at every dispatch
\* of the parse loop the cursor holds the input from the start of line
\* current_line on, untouched.
C24_OneLinePerStatement ==
    [][/\ RecognizerSucceeded => Remaining' = DropLines(Remaining, 1)
       /\ pc' = "parsing" => Remaining' = DropLines(text_iterable', current_line')]_vars

\* two lines were recognized and a third line is left on the cursor
C24_Witness ==
    /\ pc = "parsing"
    /\ current_line = 2
    /\ Len(lines) = 2
    /\ Remaining # <<>>
    /\ Len(InputLines(text_iterable)) = 3
    /\ Remaining = InputLines(text_iterable)[3]

\* C25: every iteration of the loop of parse fails or takes at least one
\* character from the cursor, parse returns exactly when the cursor is
\* exhausted at the head of the loop, and every parse call returns or
\* fails.
C25_ParseTerminates ==
    /\ [][pc = "parsing" =>
             /\ pc' = "parsing" => Len(Remaining') < Len(Remaining)
             /\ pc' = "done" <=> Remaining = <<>>
             /\ pc' \in {"parsing", "done", "error"}]_vars
    /\ (pc = "parsing" ~> pc \in {"done", "error"})

\* a parse call that went through two iterations has returned
C25_Witness ==
    /\ pc = "done"
    /\ Len(lines) = 2
    /\ current_line = 2
    /\ Len(InputLines(text_iterable)) = 2
    /\ Remaining = <<>>

(***************************************************************************)
(* Properties of a parser used for several parse calls (SpecReparse).      *)
(***************************************************************************)
\* the collections and the line counter of the parser
Collections ==
    [resources |-> resources, defines |-> defines, includes |-> includes,
     comments |-> comments, whitespace |-> whitespace, empty_lines |-> empty_lines,
     current_line |-> current_line]

\* the result of the recognizer that parse_method_for chooses for the line
FreshRecognized(method, line, linenum) ==
    IF method = "parse_resource" THEN XResourceStatement_from_iter(line, linenum)
    ELSE IF method = "parse_comment" THEN XCommentStatement_from_iter(line, linenum)
    ELSE IF method = "parse_define" THEN XDefineStatement_from_iter(line, linenum)
    ELSE IF method = "parse_include" THEN XIncludeStatement_from_iter(line, linenum)
    ELSE IF method = "parse_white_space" THEN Whitespace_from_iter(line, linenum)
    ELSE [raised |-> "TypeError", st |-> None]

\* the collections c with the statement st filed by the method
FreshFiled(c, method, st) ==
    LET n == [c EXCEPT !.current_line = @ + 1] IN
    IF method = "parse_resource"
    THEN [n EXCEPT !.resources = dict_setitem(@, st.resource, st)]
    ELSE IF method = "parse_comment" THEN [n EXCEPT !.comments = Append(@, st)]
    ELSE IF method = "parse_define"
    THEN [n EXCEPT !.defines = dict_setitem(@, st.name, st)]
    ELSE IF method = "parse_include" THEN [n EXCEPT !.includes = Append(@, st)]
    ELSE [n EXCEPT !.empty_lines = Append(@, c.current_line),
                   !.whitespace = Append(@, st)]

\* the collections at the end of the loop of parse that holds collections c
\* and a cursor with queue q over it
RECURSIVE FreshLoop(_, _, _)
FreshLoop(c, q, it) ==
    LET p == peek(q, it, 1)
        m == parse_method_for(p.character_queue, p.iterable)
        tl == take_line(m.character_queue, m.iterable)
        r == FreshRecognized(m.method, tl.line, c.current_line)
    IN IF p.raised # "" THEN c
       ELSE IF r.raised # "" THEN c
       ELSE FreshLoop(FreshFiled(c, m.method, r.st), tl.character_queue, tl.iterable)

\* the collections of XParser() after parse(t)
FreshParse(t) ==
    FreshLoop([resources |-> <<>>, defines |-> <<>>, includes |-> <<>>,
               comments |-> <<>>, whitespace |-> <<>>, empty_lines |-> <<>>,
               current_line |-> 0], <<>>, t)

\* C21 (as claimed): after a parse call, whatever calls were made on the
\* parser before, the collections and the line counter are those of a fresh
\* parser after the same parse call.
C21_ReparseEqualsFresh ==
    pc \in {"done", "error"} => Collections = FreshParse(text_iterable)

\* the lines of the whitespace statements
WhitespaceLines == [i \in 1..Len(whitespace) |-> whitespace[i].line]

\* C26: in every state of a parser, inside and after parse calls that
\* return or fail and after clear calls, empty_lines is the list of the
\* lines of the whitespace statements, and neither assertion of the
\* blank-lines view fails.
C26_EmptyLinesAreWhitespaceLines ==
    /\ empty_lines = WhitespaceLines
    /\ line_count # AssertionFailed
    /\ EmptyLinesView_len = [raised |-> "", value |-> Len(empty_lines)]

\* a later parse call on a parser has failed on its second line, after the
\* blank line in front of it was filed, and the view was built
C26_Witness ==
    /\ pc = "error"
    /\ includes # <<>>
    /\ text_iterable = <<"\n", "x">>
    /\ empty_lines = <<0>>
    /\ Len(whitespace) = 1
    /\ line_count >= 0

(***************************************************************************)
(* Properties of match_resource (SpecMatch).                               *)
(***************************************************************************)
\* the components of an identifier, empty ones dropped
Split(id) == SelectSeq(components_loop(id, <<>>, <<>>), LAMBDA ele : ele # <<>>)

\* the last component of the identifier is a wildcard
LastIsWildcard(id) ==
    Split(id) # <<>> /\ Split(id)[Len(Split(id))] \in {STAR, QUESTION}

\* C6 (as claimed): match_resource(a, b) and match_resource(b, a) have the
\* same outcome.
C6_Commutative ==
    mpc = "done" => mr_value = match_resource(mr_string, mr_resource)

\* x is L.*.T with L and T literal components, and y is L.M.T for some
\* components M, at least one
Aligns(x, y) ==
    LET cx == Split(x)
        cy == Split(y)
    IN /\ cx # <<>> /\ cy # <<>>
       /\ ~LastIsWildcard(x) /\ ~LastIsWildcard(y)
       /\ Len(cy) >= Len(cx)
       /\ \E i \in 1..Len(cx) :
              /\ cx[i] = STAR
              /\ \A j \in 1..Len(cx) : j # i => cx[j] \notin {STAR, QUESTION}
              /\ \A j \in 1..(i - 1) : cy[j] = cx[j]
              /\ \A j \in (i + 1)..Len(cx) : cy[Len(cy) - Len(cx) + j] = cx[j]

\* the pairs of the docstring of _MatchResource
RefPairs == { <<Ref1, Ref2>>, <<Ref3, Ref4>>, <<Ref5, Ref2>> }

\* C7: an identifier L.*.T matches, as either argument, every identifier
\* L.M.T with components M in between, among them the three pairs of the
\* docstring.
C7_StarAlignsGap ==
    mpc = "done" =>
        /\ (Aligns(mr_resource, mr_string) \/ Aligns(mr_string, mr_resource))
               => mr_value = [raised |-> "", value |-> TRUE]
        /\ <<mr_resource, mr_string>> \in RefPairs
               => mr_value = [raised |-> "", value |-> TRUE]

\* the first pair of the docstring has been compared
C7_Witness ==
    /\ mpc = "done"
    /\ mr_resource = Ref1 /\ mr_string = Ref2
    /\ Aligns(mr_string, mr_resource)
    /\ mr_value.value

\* C8 (as claimed): match_resource raises ValueError when the last
\* component of either argument is a wildcard, and returns a boolean
\* otherwise.
C8_RejectsTrailingWildcardOnly ==
    mpc = "done" =>
        IF LastIsWildcard(mr_resource) \/ LastIsWildcard(mr_string)
        THEN mr_value.raised = "ValueError"
        ELSE mr_value.raised = ""

\* the padded length of the call, max(len(resource components),
\* len(pattern components))
PadLen ==
    IF Len(mr.resource_components) >= Len(mr.string_components)
    THEN Len(mr.resource_components) ELSE Len(mr.string_components)

\* both expanded sequences have a component at position i, and one of the
\* two is ? or both are the same literal component
Agree(i) ==
    /\ i <= Len(mr.expanded_resource)
    /\ i <= Len(mr.expanded_string)
    /\ \/ mr.expanded_resource[i] = QUESTION
       \/ mr.expanded_string[i] = QUESTION
       \/ /\ mr.expanded_resource[i] = mr.expanded_string[i]
          /\ mr.expanded_resource[i] # STAR

\* C22 (as claimed): match_resource returns true exactly when every
\* position up to the padded length agrees, so two identifiers without
\* wildcards match only when they have the same components.
C22_ComparesEveryPosition ==
    (mpc = "done" /\ mr_value.raised = "") =>
        (mr_value.value <=> \A i \in 1..PadLen : Agree(i))

\* out is comps with its first star replaced by ? tokens up to the given
\* length, the other components kept in their order; without a star out
\* is comps
Padded(comps, out, length) ==
    LET w == FirstIndex(comps, STAR) IN
    IF w = 0 THEN out = comps
    ELSE /\ Len(out) = length
         /\ \A j \in 1..(w - 1) : out[j] = comps[j]
         /\ \A j \in w..(w + length - Len(comps)) : out[j] = QUESTION
         /\ \A j \in (w + 1)..Len(comps) : out[length - Len(comps) + j] = comps[j]

\* C23: once a _MatchResource is constructed, each expanded sequence is
\* the component sequence with its star replaced by ? tokens so that its
\* length is the padded length, all other components kept in order, and a
\* sequence without a star is expanded to itself.
C23_PaddingStep ==
    (mpc # "start" /\ mr.raised = "") =>
        /\ Padded(mr.resource_components, mr.expanded_resource, PadLen)
        /\ Padded(mr.string_components, mr.expanded_string, PadLen)

\* the star of comp_a.*.attribute was padded to two tokens against the four
\* components of comp_a.*.comp_d.attribute
C23_Witness ==
    /\ mpc = "constructed"
    /\ mr_resource = Ref1 /\ mr_string = Ref2
    /\ mr.string_components = <<RefA, STAR, RefAttr>>
    /\ mr.expanded_string = <<RefA, QUESTION, QUESTION, RefAttr>>
    /\ mr.expanded_resource = <<RefA, QUESTION, RefD, RefAttr>>

(***************************************************************************)
(* Properties of the cursor used alone (SpecCursor).                       *)
(***************************************************************************)
\* C17: whatever peek(n), n >= 1, and next() calls were made, the
\* characters the next() calls returned are the first characters of the
\* text, in order; a peek(n) made when k characters were returned gives
\* character number k + n of the text, which is what the n-th next() after
\* it returns, and raises StopIteration exactly when the text has fewer
\* than k + n characters; next() raises only when the whole text was
\* returned, also after a peek has raised.
C17_PeekNeverConsumes ==
    LET k == Len(returned) IN
    /\ k <= Len(text_iterable)
    /\ returned = SubSeq(text_iterable, 1, k)
    /\ character_queue \o iterable = SubSeq(text_iterable, k + 1, Len(text_iterable))
    /\ call.op = "peek" =>
           IF k + call.n <= Len(text_iterable)
           THEN call.raised = "" /\ call.char = text_iterable[k + call.n]
           ELSE call.raised = "StopIteration"
    /\ call.op = "next" =>
           IF call.raised = ""
           THEN k >= 1 /\ call.char = text_iterable[k]
           ELSE call.raised = "StopIteration" /\ k = Len(text_iterable)

\* a peek raised StopIteration while two or more characters remained, and
\* the next() calls made after it have returned every remaining character
C17_Witness ==
    /\ call.op = "next"
    /\ call.raised = ""
    /\ returned = text_iterable
    /\ \E k \in peek_raised : k + 2 <= Len(returned)

(***************************************************************************)
(* Properties of the recognizers called on a string (SpecRecognize).       *)
(***************************************************************************)
\* the first line of a string: its characters before the first newline
FirstLine(t) == IF InputLines(t) = <<>> THEN <<>> ELSE InputLines(t)[1]

\* recognizer cls was called
Called(cls) == rpc = "done" /\ outcome.cls = cls

\* C18 (as claimed): the resource recognizer fails on a line without ':',
\* and on a line with ':' yields the text before the first ':' and the
\* text after it, each without its surrounding whitespace.
C18_ResourceSplitsAtFirstColon ==
    Called("XResourceStatement") =>
        LET line == FirstLine(text_iterable)
            c == FirstIndex(line, RESOURCE_SEP)
        IN IF c = 0
           THEN outcome.raised = "XParseError"
           ELSE /\ outcome.raised = ""
                /\ outcome.st.resource = strip(SubSeq(line, 1, c - 1))
                /\ outcome.st.value = strip(SubSeq(line, c + 1, Len(line)))

\* the line is #define, a space, a name of word characters, a space and a
\* remainder that is not empty once trimmed
HasNameAndValue(line) ==
    LET rest == SubSeq(line, Len(DefinePrefix) + 1, Len(line))
        w == WordRun(rest)
    IN /\ StartsWith(line, DefinePrefix)
       /\ w >= 1
       /\ Len(rest) > w /\ rest[w + 1] = " "
       /\ strip(SubSeq(rest, w + 1, Len(rest))) # <<>>

\* C19 (as claimed): the define recognizer accepts a line only of the form
\* #define <name> <value> with a name and a value, the value stored being
\* the remainder of the line trimmed; any other line fails with
\* XParseError.
C19_DefineNameAndTrimmedValue ==
    Called("XDefineStatement") =>
        LET line == FirstLine(text_iterable)
            rest == SubSeq(line, Len(DefinePrefix) + 1, Len(line))
        IN IF HasNameAndValue(line)
           THEN /\ outcome.raised = ""
                /\ outcome.st.name = SubSeq(rest, 1, WordRun(rest))
                /\ outcome.st.value = strip(SubSeq(rest, WordRun(rest) + 1, Len(rest)))
           ELSE outcome.raised = "XParseError"

\* C20 (as claimed): the comment recognizer yields, on a line whose first
\* character is '!', the characters after it up to the end of the line,
\* and fails with MissingTokenError on a line with another first
\* character.
C20_CommentOrMissingToken ==
    Called("XCommentStatement") =>
        LET line == FirstLine(text_iterable) IN
        /\ (line # <<>> /\ line[1] = COMMENT_START) =>
               outcome.raised = "" /\ outcome.st.comment = Tail(line)
        /\ (line # <<>> /\ line[1] # COMMENT_START) =>
               outcome.raised = "MissingTokenError"

====
